---- MODULE Spec2Model ----
(***************************************************************************)
(* Baseline scheduler of data/benchmark/generate_baseline_schedules.py:    *)
(* generate_baseline_schedule packs the jobs first-fit into per-machine    *)
(* bins that are re-created generation by generation, closes the bins,     *)
(* builds one JobResultInfo per placed job and hands the records to        *)
(* _calculate_result_from_baseline.                                        *)
(*                                                                         *)
(* One run of generate_baseline_schedule is one behaviour.  The inputs     *)
(* (jobs, accelerators) are chosen in Init and never change; every         *)
(* iteration of the packing loop is one step.                              *)
(***************************************************************************)
EXTENDS Integers, Sequences, FiniteSets, TLC

VARIABLES
    jobs,           \* argument jobs: list of circuits, a circuit is None or [num_qubits]
    accelerators,   \* argument accelerators: ordered dict, a sequence of [key, qubits]
    pc,             \* position in generate_baseline_schedule
    new_jobs,       \* local new_jobs: list of JobHelper [name, instance]
    open_bins,      \* local open_bins: list of Bin
    closed_bins,    \* local closed_bins: list of Bin
    index,          \* local index: generation index of the next bins to open
    i,              \* number of entries of new_jobs the for loop has consumed
    combined_jobs,  \* local combined_jobs: list of JobResultInfo
    result,         \* the returned record list, None until the function returns
    times_dims,     \* arguments process_times and setup_times, by their dimensions:
                    \* <<rows, columns>> of the first, then <<d1, d2, d3>> of the second
    makespan        \* the returned makespan, None until the function returns

vars == <<jobs, accelerators, pc, new_jobs, open_bins, closed_bins, index, i,
          combined_jobs, result, times_dims, makespan>>

(***************************************************************************)
(* Bounds of the model.                                                    *)
(***************************************************************************)
MaxMachines == 2   \* machines in the accelerators dict
MaxCap == 4        \* qubits of a machine
MaxQubits == 3     \* qubits of a circuit
MaxJobs == 3       \* entries of the jobs list
MaxEvalJobs == 2   \* entries of the jobs list in the runs with incomplete matrices
MaxEvalCap == 2    \* qubits of a machine in the runs with incomplete matrices

\* Python's None (a circuit instance that is missing, a function not yet returned).
None == [none |-> TRUE]

\* find_fitting_bin's "return None": no index.
NoIdx == -1

\* A circuit is modelled by the one attribute the scheduler reads.
Circuit(n) == [num_qubits |-> n]

\* Circuits of 0..MaxQubits qubits; one wider than every machine of the run fits no bin.
Circuits == {Circuit(n) : n \in 0..MaxQubits}

\* The k-th key of the accelerators dict; keys of a dict are pairwise distinct.
MachineKey(k) == <<"qpu", k>>

SeqsUpTo(S, n) == UNION {[1..m -> S] : m \in 0..n}

\* The ordered dict with the capacities c, in insertion order.
MakeDict(c) == [k \in 1..Len(c) |-> [key |-> MachineKey(k), qubits |-> c[k]]]

\* Machine mappings of the data model: at least one machine, positive capacities.
AcceleratorDicts == {MakeDict(c) : c \in SeqsUpTo(1..MaxCap, MaxMachines) \ {<<>>}}

\* Every mapping a dict[str, int] can hold: also no machine, zero and negative capacities.
AnyAcceleratorDicts == {MakeDict(c) : c \in SeqsUpTo((-1)..MaxCap, MaxMachines)}

JobLists == SeqsUpTo(Circuits \cup {None}, MaxJobs)

\* The inputs of the runs whose time matrices may lack rows and entries.
EvalAcceleratorDicts == {MakeDict(c) : c \in SeqsUpTo(1..MaxEvalCap, MaxMachines) \ {<<>>}}
EvalJobLists == SeqsUpTo(Circuits \cup {None}, MaxEvalJobs)

\* Entries of the time matrices: job positions j, a, b (for setup times 1 is the
\* synthetic job "0"), machine position m.
ProcessTime(j, m) == j + m
SetupTime(a, b, m) == 1 + ((a + b + m) % 2)

\* process_times with the first rows rows, each cut to cols entries.
ProcessTimesOfShape(rows, cols) ==
    [j \in 1..rows |-> [m \in 1..cols |-> ProcessTime(j, m)]]

\* setup_times cut to d1 x d2 x d3 entries.
SetupTimesOfShape(d1, d2, d3) ==
    [a \in 1..d1 |-> [b \in 1..d2 |-> [m \in 1..d3 |-> SetupTime(a, b, m)]]]

\* The arguments themselves.  They are input data that no statement changes; the
\* state keeps their dimensions and the entries are ProcessTime and SetupTime.
process_times == ProcessTimesOfShape(times_dims[1], times_dims[2])

setup_times == SetupTimesOfShape(times_dims[3], times_dims[4], times_dims[5])

(***************************************************************************)
(* Pure helpers.                                                           *)
(***************************************************************************)
DigitChar == <<"0", "1", "2", "3", "4", "5", "6", "7", "8", "9">>

\* str(n) for n >= 0: the decimal digits, most significant first.
RECURSIVE Str(_)
Str(n) == IF n < 10 THEN <<DigitChar[n + 1]>>
          ELSE Str(n \div 10) \o <<DigitChar[(n % 10) + 1]>>

\* accelerators.values() and accelerators.keys(), in insertion order.
Values(accs) == [k \in 1..Len(accs) |-> accs[k].qubits]
Keys(accs) == [k \in 1..Len(accs) |-> accs[k].key]

\* JobHelper(name, instance)
JobHelper(name, instance) == [name |-> name, instance |-> instance]

\* Bin(index=..., capacity=..., qpu=...): jobs starts empty, full starts False.
Bin(idx, capacity, qpu) ==
    [index |-> idx, capacity |-> capacity, qpu |-> qpu, jobs |-> <<>>, full |-> FALSE]

\* Mutant of MakeNewJobs: entries without instance are dropped before the numbering.
MakeNewJobsFiltered(js) ==
    LET kept == SelectSeq(js, LAMBDA c : c # [none |-> TRUE])
    IN  [k \in 1..Len(kept) |-> JobHelper(Str(k), kept[k])]

\* [JobHelper(str(idx + 1), job) for idx, job in enumerate(jobs)]
MakeNewJobs(js) == [k \in 1..Len(js) |-> JobHelper(Str(k), js[k])]

\* Mutant of MakeBins: the bins carry the previous generation index.
MakeBinsStaleIndex(idx, accs) ==
    [k \in 1..Len(accs) |-> Bin(IF idx > 0 THEN idx - 1 ELSE 0, Values(accs)[k], k - 1)]

\* Mutant of MakeBins: a bin for the first machine only.
MakeBinsFirstOnly(idx, accs) ==
    [k \in 1..(IF Len(accs) > 0 THEN 1 ELSE 0) |-> Bin(idx, Values(accs)[k], k - 1)]

\* [Bin(index=index, capacity=qpu, qpu=idx) for idx, qpu in enumerate(accelerators.values())]
MakeBins(idx, accs) == [k \in 1..Len(accs) |-> Bin(idx, Values(accs)[k], k - 1)]

\* Mutant of NextIndex: a generation index is skipped.
NextIndexSkip(idx) == idx + 2

\* Mutant of NextIndex: the generation counter is not advanced.
NextIndexStuck(idx) == idx

\* index += 1
NextIndex(idx) == idx + 1

Min(S) == CHOOSE x \in S : \A y \in S : x <= y

Max(S) == CHOOSE x \in S : \A y \in S : x >= y

\* Mutant of find_fitting_bin: the last fitting bin instead of the first.
find_fitting_bin_last(job, bins) ==
    LET fitting == {k \in 1..Len(bins) : bins[k].capacity >= job.instance.num_qubits}
    IN  IF fitting = {} THEN NoIdx ELSE Max(fitting) - 1

\* Mutant of find_fitting_bin: falls back to the first bin when none fits.
find_fitting_bin_fallback(job, bins) ==
    LET fitting == {k \in 1..Len(bins) : bins[k].capacity >= job.instance.num_qubits}
    IN  IF fitting # {} THEN Min(fitting) - 1 ELSE IF bins = <<>> THEN NoIdx ELSE 0

\* find_fitting_bin: 0-based position of the first bin with capacity >= num_qubits.
find_fitting_bin(job, bins) ==
    LET fitting == {k \in 1..Len(bins) : bins[k].capacity >= job.instance.num_qubits}
    IN  IF fitting = {} THEN NoIdx ELSE Min(fitting) - 1

\* Mutant of AddJob: the capacity is not debited.
AddJobNoDebit(b, job) == [b EXCEPT !.jobs = Append(@, job)]

\* selected_bin.jobs.append(job); selected_bin.capacity -= job.instance.num_qubits
AddJob(b, job) ==
    [b EXCEPT !.jobs = Append(@, job), !.capacity = @ - job.instance.num_qubits]

\* Mutant of MarkFull: the flag is not set.
MarkFullNoFlag(b) == b

\* selected_bin.full = True
MarkFull(b) == [b EXCEPT !.full = TRUE]

\* Mutant of DelAt: nothing is deleted.
DelAtNothing(bins, idx) == bins

\* del bins[idx], idx 0-based
DelAt(bins, idx) == [k \in 1..(Len(bins) - 1) |-> IF k <= idx THEN bins[k] ELSE bins[k + 1]]

\* Mutant of NonEmptyBins: every open bin is kept, also the empty ones.
NonEmptyBinsAll(bins) == bins

\* Mutant of NonEmptyBins: off by one, bins with a single job are dropped.
NonEmptyBinsOffByOne(bins) == SelectSeq(bins, LAMBDA b : Len(b.jobs) > 1)

\* The bins of the final sweep that are kept: len(obin.jobs) > 0, in open_bins order.
NonEmptyBins(bins) == SelectSeq(bins, LAMBDA b : Len(b.jobs) > 0)

\* Mutant of SortedByIndex: sorted on (index, qpu) instead of index alone.
RECURSIVE InsertByIndexQpu(_, _)
InsertByIndexQpu(b, sorted) ==
    IF sorted = <<>> THEN <<b>>
    ELSE IF \/ sorted[Len(sorted)].index < b.index
            \/ sorted[Len(sorted)].index = b.index /\ sorted[Len(sorted)].qpu <= b.qpu
         THEN Append(sorted, b)
    ELSE Append(InsertByIndexQpu(b, SubSeq(sorted, 1, Len(sorted) - 1)), sorted[Len(sorted)])

RECURSIVE SortedByIndexQpu(_)
SortedByIndexQpu(bins) ==
    IF bins = <<>> THEN <<>>
    ELSE InsertByIndexQpu(bins[Len(bins)], SortedByIndexQpu(SubSeq(bins, 1, Len(bins) - 1)))

\* sorted(bins, key=lambda x: x.index): stable insertion sort on the key.
RECURSIVE InsertByIndex(_, _)
InsertByIndex(b, sorted) ==
    IF sorted = <<>> THEN <<b>>
    ELSE IF sorted[Len(sorted)].index <= b.index THEN Append(sorted, b)
    ELSE Append(InsertByIndex(b, SubSeq(sorted, 1, Len(sorted) - 1)), sorted[Len(sorted)])

RECURSIVE SortedByIndex(_)
SortedByIndex(bins) ==
    IF bins = <<>> THEN <<>>
    ELSE InsertByIndex(bins[Len(bins)], SortedByIndex(SubSeq(bins, 1, Len(bins) - 1)))

\* Mutant of JobResultInfo: the machine position is taken for the start time.
JobResultInfoQpuAsStart(job, b, accs) ==
    [name |-> job.name, machine |-> Keys(accs)[b.qpu + 1],
     start_time |-> b.qpu, completion_time |-> -1]

\* JobResultInfo(name, machine, start_time, completion_time=-1.0)
JobResultInfo(job, b, accs) ==
    [name |-> job.name, machine |-> Keys(accs)[b.qpu + 1],
     start_time |-> b.index, completion_time |-> -1]

RECURSIVE BuildCombinedJobs(_, _)
BuildCombinedJobs(bins, accs) ==
    IF bins = <<>> THEN <<>>
    ELSE [k \in 1..Len(bins[1].jobs) |-> JobResultInfo(bins[1].jobs[k], bins[1], accs)]
         \o BuildCombinedJobs(Tail(bins), accs)

(***************************************************************************)
(* The evaluator: pulp.makeDict as called at lines 94-103, and the finish  *)
(* time recurrence of calculate_makespan.                                  *)
(***************************************************************************)
\* lp_jobs = ["0"] + [str(idx + 1) for idx, _ in enumerate(base_jobs)]
LpJobs(js) == <<Str(0)>> \o [k \in 1..Len(js) |-> Str(k)]

\* makeDict walks array[i] for every header of every level but the last, so it
\* raises IndexError when the array is shorter than the headers there; on the last
\* level zip() stops at the shorter of headers and row.
MakeDict2Fails(h1, array) == Len(array) < Len(h1)

MakeDict3Fails(h1, h2, array) ==
    \/ Len(array) < Len(h1)
    \/ \E a \in 1..Len(h1) : Len(array[a]) < Len(h2)

\* A dict is kept as its keys in insertion order and the values at the same
\* positions.  Last level: dict(zip(headers[0], array)).
MakeDict1(h1, array) ==
    LET n == Min({Len(h1), Len(array)})
    IN  [keys |-> SubSeq(h1, 1, n), vals |-> SubSeq(array, 1, n)]

\* The dict of makeDict([h1, h2], array, 0): for i, h in enumerate(headers[0]),
\* result[h] = the dict of array[i].
MakeDict2(h1, h2, array) ==
    [keys |-> h1, vals |-> [k \in 1..Len(h1) |-> MakeDict1(h2, array[k])]]

\* The dict of makeDict([h1, h2, h3], array, 0).
MakeDict3(h1, h2, h3, array) ==
    [keys |-> h1, vals |-> [k \in 1..Len(h1) |-> MakeDict2(h2, h3, array[k])]]

\* d[k1][k2]...: the dicts are defaultdicts, a key without entry gives the default 0.
RECURSIVE Lookup(_, _)
Lookup(d, key) ==
    IF key = <<>> THEN d
    ELSE LET hit == {k \in 1..Len(d.keys) : d.keys[k] = Head(key)}
         IN  IF hit = {} THEN 0
             ELSE Lookup(d.vals[CHOOSE k \in hit : TRUE], Tail(key))

\* calculate_makespan's recurrence: on every machine the jobs run in record order
\* after the synthetic job "0"; finish = predecessor's finish + setup + processing.
\* last maps a machine to the name and finish time of its latest job.
RECURSIVE FinishTimes(_, _, _, _)
FinishTimes(records, last, p, s) ==
    IF records = <<>> THEN <<>>
    ELSE LET r == records[1]
             pred == IF r.machine \in DOMAIN last THEN last[r.machine]
                     ELSE [name |-> Str(0), finish |-> 0]
             finish == pred.finish + Lookup(s, <<pred.name, r.name, r.machine>>)
                                   + Lookup(p, <<r.name, r.machine>>)
         IN  <<[r EXCEPT !.completion_time = finish]>>
             \o FinishTimes(Tail(records),
                    (r.machine :> [name |-> r.name, finish |-> finish]) @@ last, p, s)

\* The makespan: the latest finish time, 0 for an empty schedule.
MakespanOf(records) ==
    IF records = <<>> THEN 0
    ELSE Max({records[k].completion_time : k \in 1..Len(records)})

(***************************************************************************)
(* The run.                                                                *)
(***************************************************************************)
InitWith(accs, js, dims) ==
    /\ times_dims = dims
    /\ makespan = None
    /\ jobs = js
    /\ accelerators = accs
    /\ pc = "entry"
    /\ new_jobs = <<>>
    /\ open_bins = <<>>
    /\ closed_bins = <<>>
    /\ index = 0
    /\ i = 0
    /\ combined_jobs = <<>>
    /\ result = None

\* Dimensions of complete time matrices: a row per job (and per job and "0" for
\* the setup times), an entry per machine.
CompleteDims(accs, js) ==
    <<Len(js), Len(accs), Len(js) + 1, Len(js) + 1, Len(accs)>>

\* Runs of the data model, with complete time matrices.
Init ==
    \E accs \in AcceleratorDicts, js \in JobLists :
        InitWith(accs, js, CompleteDims(accs, js))

InitAny ==
    \E accs \in AnyAcceleratorDicts, js \in JobLists :
        InitWith(accs, js, CompleteDims(accs, js))

\* Runs whose time matrices may lack rows (jobs) and trailing entries (machines).
InitEval ==
    \E accs \in EvalAcceleratorDicts, js \in EvalJobLists :
        \E rows \in 0..Len(js), d1 \in 0..(Len(js) + 1) :
            \E cols \in IF rows = 0 THEN {0} ELSE 0..Len(accs),
               d2 \in IF d1 = 0 THEN {0} ELSE 0..(Len(js) + 1) :
                \E d3 \in IF d2 = 0 THEN {0} ELSE 0..Len(accs) :
                    InitWith(accs, js, <<rows, cols, d1, d2, d3>>)

\* Lines 23-29: new_jobs, the generation-0 bins, closed_bins = [], index = 1.
Setup ==
    /\ pc = "entry"
    /\ new_jobs' = MakeNewJobs(jobs)
    /\ open_bins' = MakeBins(0, accelerators)
    /\ closed_bins' = <<>>
    /\ index' = 1
    /\ pc' = "loop"
    /\ UNCHANGED <<times_dims, jobs, accelerators,
                   i, combined_jobs, result, makespan>>

\* Lines 31-32: an entry without a circuit instance is skipped.
SkipJob ==
    /\ pc = "loop"
    /\ i < Len(new_jobs)
    /\ new_jobs[i + 1].instance = None
    /\ i' = i + 1
    /\ UNCHANGED <<times_dims, jobs, accelerators,
                   pc, new_jobs, open_bins, closed_bins, index,
                   combined_jobs, result, makespan>>

\* Lines 34-59: one iteration that places the job.
PlaceJob ==
    /\ pc = "loop"
    /\ i < Len(new_jobs)
    /\ new_jobs[i + 1].instance # None
    /\ LET job == new_jobs[i + 1]
           found == find_fitting_bin(job, open_bins)
           new_bins == MakeBins(index, accelerators)
           found_new == find_fitting_bin(job, new_bins)
           bin_idx == IF found # NoIdx THEN found ELSE found_new + Len(open_bins)
           bins == IF found # NoIdx THEN open_bins ELSE open_bins \o new_bins
       IN  /\ found = NoIdx => found_new # NoIdx
           /\ index' = IF found # NoIdx THEN index ELSE NextIndex(index)
           /\ LET selected_bin == AddJob(bins[bin_idx + 1], job)
              IN  IF selected_bin.capacity = 0
                  THEN /\ closed_bins' = Append(closed_bins, MarkFull(selected_bin))
                       /\ open_bins' = DelAt(bins, bin_idx)
                  ELSE /\ closed_bins' = closed_bins
                       /\ open_bins' = [bins EXCEPT ![bin_idx + 1] = selected_bin]
    /\ i' = i + 1
    /\ UNCHANGED <<times_dims, jobs, accelerators,
                   pc, new_jobs, combined_jobs, result, makespan>>

\* Lines 36-46: no open bin and no new bin holds the job: the assertion fails.
AbortJob ==
    /\ pc = "loop"
    /\ i < Len(new_jobs)
    /\ new_jobs[i + 1].instance # None
    /\ find_fitting_bin(new_jobs[i + 1], open_bins) = NoIdx
    /\ find_fitting_bin(new_jobs[i + 1], MakeBins(index, accelerators)) = NoIdx
    /\ index' = NextIndex(index)
    /\ pc' = "aborted"
    /\ UNCHANGED <<times_dims, jobs, accelerators,
                   new_jobs, open_bins, closed_bins, i,
                   combined_jobs, result, makespan>>

\* Lines 61-64: the final sweep over the open bins.
CloseOpenBins ==
    /\ pc = "loop"
    /\ i = Len(new_jobs)
    /\ closed_bins' = closed_bins \o NonEmptyBins(open_bins)
    /\ pc' = "build"
    /\ UNCHANGED <<times_dims, jobs, accelerators,
                   new_jobs, open_bins, index, i, combined_jobs, result, makespan>>

\* Lines 66-78: the records, bin by bin in sorted order.
BuildRecords ==
    /\ pc = "build"
    /\ combined_jobs' = BuildCombinedJobs(SortedByIndex(closed_bins), accelerators)
    /\ pc' = "evaluate"
    /\ UNCHANGED <<times_dims, jobs, accelerators,
                   new_jobs, open_bins, closed_bins, index, i, result, makespan>>

\* Lines 91-105: the header lists, the two lookups, the evaluator's result.
calculate_result_from_baseline(records, js, accs, pt, st) ==
    LET lp_jobs == LpJobs(js)
        machines == Keys(accs)
        p_times == MakeDict2(Tail(lp_jobs), machines, pt)
        s_times == MakeDict3(lp_jobs, lp_jobs, machines, st)
    IN  FinishTimes(records, <<>>, p_times, s_times)

\* Lines 80-105: the two dicts are built, calculate_makespan fills the completion
\* times into the records it was handed, and the same list is returned.
CalculateResult ==
    /\ pc = "evaluate"
    /\ IF \/ MakeDict2Fails(Tail(LpJobs(jobs)), process_times)
          \/ MakeDict3Fails(LpJobs(jobs), LpJobs(jobs), setup_times)
       THEN /\ pc' = "failed"
            /\ UNCHANGED <<combined_jobs, result, makespan>>
       ELSE /\ combined_jobs' =
                   calculate_result_from_baseline(combined_jobs, jobs, accelerators,
                                                  process_times, setup_times)
            /\ result' = combined_jobs'
            /\ makespan' = MakespanOf(combined_jobs')
            /\ pc' = "done"
    /\ UNCHANGED <<times_dims, jobs, accelerators,
                   new_jobs, open_bins, closed_bins, index, i>>

Next ==
    \/ Setup
    \/ SkipJob
    \/ PlaceJob
    \/ AbortJob
    \/ CloseOpenBins
    \/ BuildRecords
    \/ CalculateResult

Spec == Init /\ [][Next]_vars

\* The same run, started on any mapping a caller can pass.
SpecAny == InitAny /\ [][Next]_vars

\* The same run, started with time matrices that may be incomplete.
SpecEval == InitEval /\ [][Next]_vars

TypeOK ==
    /\ pc \in {"entry", "loop", "build", "evaluate", "done", "aborted", "failed"}
    /\ i \in 0..Len(jobs)
    /\ index \in 0..(Len(jobs) + 1)

(***************************************************************************)
(* Vocabulary of the properties.                                           *)
(***************************************************************************)
\* Every bin the run holds: the open set followed by the closed set.
AllBins == open_bins \o closed_bins

\* The run is past the final sweep: closed_bins is the packer's output.
Packed == pc \in {"build", "evaluate", "done"}

RECURSIVE SumQubits(_)
SumQubits(js) == IF js = <<>> THEN 0 ELSE js[1].instance.num_qubits + SumQubits(Tail(js))

\* Nominal capacity of the machine a bin is bound to.
Nominal(b) == accelerators[b.qpu + 1].qubits

Fits(b, job) == b.capacity >= job.instance.num_qubits

\* How many jobs named name the bins hold.
RECURSIVE CountName(_, _)
CountName(bins, name) ==
    IF bins = <<>> THEN 0
    ELSE Cardinality({k \in 1..Len(bins[1].jobs) : bins[1].jobs[k].name = name})
         + CountName(Tail(bins), name)

CountRecords(records, name) == Cardinality({k \in 1..Len(records) : records[k].name = name})

\* Job k (1-based input position) is in one of the bins.
PlacedIn(bins, k) == \E n \in 1..Len(bins) : \E m \in 1..Len(bins[n].jobs) :
                        bins[n].jobs[m].name = Str(k)

\* Generation index of the bin among bins that holds job k.
GenIn(bins, k) ==
    LET n == CHOOSE n \in 1..Len(bins) :
                 \E m \in 1..Len(bins[n].jobs) : bins[n].jobs[m].name = Str(k)
    IN  bins[n].index

Placed(k) == PlacedIn(AllBins, k)
GenOf(k) == GenIn(AllBins, k)

\* Job k has a circuit that is wider than every machine.
Infeasible(k) ==
    /\ jobs[k] # None
    /\ \A m \in 1..Len(accelerators) : jobs[k].num_qubits > accelerators[m].qubits

(***************************************************************************)
(* C1: at every point of the run, every bin of the open set and of the     *)
(* closed set holds jobs whose num_qubits sum to at most the nominal       *)
(* capacity of its machine, and its remaining capacity is the nominal      *)
(* capacity minus that sum.                                                *)
(***************************************************************************)
WithinCapacity(b, held) ==
    /\ held <= Nominal(b)
    /\ b.capacity = Nominal(b) - held

AllWithinCapacity(bins) ==
    \A n \in 1..Len(bins) : WithinCapacity(bins[n], SumQubits(bins[n].jobs))

\* C1: every bin, open or closed, stays within its nominal capacity at every point.
C1_CapacityRespected == []AllWithinCapacity(AllBins)

\* Mid-loop, a closed bin and an open bin that holds two jobs.
C1_Witness ==
    /\ pc = "loop"
    /\ closed_bins # <<>>
    /\ \E n \in 1..Len(open_bins) : Len(open_bins[n].jobs) >= 2

(***************************************************************************)
(* C2 as stated: when the run returns, every input job id "1".."n" occurs  *)
(* exactly once across the output bins and across the records.             *)
(***************************************************************************)
C2_CoverageOfAllInputs ==
    pc = "done" =>
        \A k \in 1..Len(jobs) :
            /\ CountName(closed_bins, Str(k)) = 1
            /\ CountRecords(result, Str(k)) = 1

(***************************************************************************)
(* C2 amended: when the run returns, the ids across the output bins and    *)
(* across the records are exactly the ids of the input entries that have   *)
(* a circuit instance, each once; an entry without instance occurs in no   *)
(* bin and no record.                                                      *)
(***************************************************************************)
CoverageOfInstances ==
    pc = "done" =>
        /\ \A k \in 1..Len(jobs) :
              /\ CountName(closed_bins, Str(k)) = (IF jobs[k] # None THEN 1 ELSE 0)
              /\ CountRecords(result, Str(k)) = (IF jobs[k] # None THEN 1 ELSE 0)
        /\ \A r \in 1..Len(result) : \E k \in 1..Len(jobs) : result[r].name = Str(k)
        /\ Len(result) = Cardinality({k \in 1..Len(jobs) : jobs[k] # None})

\* C2 amended: at every point, a returned run holds exactly the jobs that have a circuit.
C2_CoverageOfInstances == []CoverageOfInstances

\* A returned run with a skipped entry, a bin closed as full and one closed by the sweep.
C2_Witness ==
    /\ pc = "done"
    /\ \E k \in 1..Len(jobs) : jobs[k] = None
    /\ \E n \in 1..Len(closed_bins) : closed_bins[n].full
    /\ \E n \in 1..Len(closed_bins) : ~closed_bins[n].full

(***************************************************************************)
(* C3: in the packer's output a bin is flagged full exactly when its jobs  *)
(* sum to the nominal capacity of its machine; a bin that is not full      *)
(* (closed by the final sweep) sums to strictly less.                      *)
(***************************************************************************)
C3_FullIffExact ==
    Packed =>
        \A n \in 1..Len(closed_bins) :
            /\ closed_bins[n].full <=> (SumQubits(closed_bins[n].jobs) = Nominal(closed_bins[n]))
            /\ ~closed_bins[n].full => SumQubits(closed_bins[n].jobs) < Nominal(closed_bins[n])

C3_Witness ==
    /\ Packed
    /\ \E n \in 1..Len(closed_bins) :
          closed_bins[n].full /\ Len(closed_bins[n].jobs) >= 2
    /\ \E n \in 1..Len(closed_bins) : ~closed_bins[n].full

(***************************************************************************)
(* C4: first fit.  A job for which some open bin has remaining capacity    *)
(* >= its requirement goes to the first such bin of the open set, and no   *)
(* generation is opened; a generation is opened only when no open bin has  *)
(* room, and the job then goes to a bin of that new generation.  Machines  *)
(* {4,4} with requirements {3,3,3} end in 3 bins of generations {0,0,1}.   *)
(***************************************************************************)
\* In the next state some bin is b with job appended to its jobs.
ReceivedIn(b, job, bins) ==
    \E n \in 1..Len(bins) :
        /\ bins[n].index = b.index
        /\ bins[n].qpu = b.qpu
        /\ bins[n].jobs = Append(b.jobs, job)

FirstFitStep ==
    (pc = "loop" /\ i' = i + 1 /\ new_jobs[i + 1].instance # None) =>
        LET job == new_jobs[i + 1]
            fitting == {k \in 1..Len(open_bins) : Fits(open_bins[k], job)}
        IN  IF fitting # {}
            THEN /\ index' = index
                 /\ Len(open_bins') + Len(closed_bins') = Len(open_bins) + Len(closed_bins)
                 /\ \E k \in fitting :
                       /\ \A j \in 1..(k - 1) : j \notin fitting
                       /\ ReceivedIn(open_bins[k], job, open_bins' \o closed_bins')
            ELSE /\ index' = index + 1
                 /\ \E n \in 1..Len(open_bins' \o closed_bins') :
                       /\ (open_bins' \o closed_bins')[n].index = index
                       /\ (open_bins' \o closed_bins')[n].jobs = <<job>>

ScenarioA ==
    /\ Values(accelerators) = <<4, 4>>
    /\ jobs = <<Circuit(3), Circuit(3), Circuit(3)>>

ScenarioAResult ==
    (ScenarioA /\ Packed) =>
        /\ Len(closed_bins) = 3
        /\ [n \in 1..3 |-> closed_bins[n].index] = <<0, 0, 1>>
        /\ [n \in 1..3 |-> closed_bins[n].qpu] = <<0, 1, 0>>

\* C4: every placing step is a first-fit step, and scenario A packs as the spec says.
C4_FirstFit == [][FirstFitStep]_vars /\ []ScenarioAResult

\* Scenario A has returned.
C4_Witness == ScenarioA /\ pc = "done" /\ Len(closed_bins) = 3

(***************************************************************************)
(* C5: a job wider than every machine is never consumed by the loop: the   *)
(* run never gets past it, it is in no bin, and the run never reaches the  *)
(* sweep, the records or the return; a run that has aborted stands at a    *)
(* job that no open bin and no fresh bin can hold.                         *)
(***************************************************************************)
InfeasibleAborts ==
    /\ \A k \in 1..Len(jobs) :
          Infeasible(k) =>
              /\ i <= k - 1
              /\ ~Placed(k)
              /\ ~Packed
              /\ combined_jobs = <<>>
              /\ result = None
    /\ (pc = "loop" /\ i = Len(jobs)) => \A k \in 1..Len(jobs) : ~Infeasible(k)

\* C5: at every point, a job wider than every machine is unplaced and the run unreturned.
C5_InfeasibleAborts == []InfeasibleAborts

\* The run aborted at an infeasible job after it had placed another one.
C5_Witness ==
    /\ pc = "aborted"
    /\ i >= 1
    /\ Infeasible(i + 1)
    /\ \E k \in 1..i : Placed(k)

(***************************************************************************)
(* C6 as stated: on a malformed input (no machine, or a machine of         *)
(* negative capacity; job ids cannot repeat, they are the positions) the   *)
(* run fails at entry: it creates no bin, places no job and never reaches  *)
(* the loop or the return.                                                 *)
(***************************************************************************)
MalformedInput ==
    \/ accelerators = <<>>
    \/ \E m \in 1..Len(accelerators) : accelerators[m].qubits < 0

\* C6 as stated: a run on malformed input never leaves the entry point.
C6_MalformedRejectedAtEntry ==
    MalformedInput =>
        /\ pc \in {"entry", "aborted"}
        /\ open_bins = <<>>
        /\ closed_bins = <<>>
        /\ result = None

(***************************************************************************)
(* C7 as stated: the records are built from bins in ascending generation   *)
(* index and, within one generation, in ascending machine position.        *)
(***************************************************************************)
\* Position of the machine a record names.
MachinePos(r) == CHOOSE m \in 1..Len(accelerators) : accelerators[m].key = r.machine

\* C7 as stated: the records follow the generations, and within one the machine order.
C7_OrderByGenerationThenMachine ==
    pc \in {"evaluate", "done"} =>
        \A r \in 1..(Len(combined_jobs) - 1) :
            \/ combined_jobs[r].start_time < combined_jobs[r + 1].start_time
            \/ /\ combined_jobs[r].start_time = combined_jobs[r + 1].start_time
               /\ MachinePos(combined_jobs[r]) <= MachinePos(combined_jobs[r + 1])

(***************************************************************************)
(* C7 amended: the records are built from bins in ascending generation     *)
(* index and, within one generation, in the order in which the bins were   *)
(* appended to the closed set: full bins in the order they became full,    *)
(* then the bins of the final sweep in open-set order.                     *)
(***************************************************************************)
\* (generation, machine key) of every job of the bins, bin by bin.
RECURSIVE Slots(_)
Slots(bins) ==
    IF bins = <<>> THEN <<>>
    ELSE [k \in 1..Len(bins[1].jobs) |-> <<bins[1].index, accelerators[bins[1].qpu + 1].key>>]
         \o Slots(Tail(bins))

\* The closed bins of generations g, g+1, ..., generation by generation, in closing order.
RECURSIVE ByGenerationFrom(_)
ByGenerationFrom(g) ==
    IF g >= index THEN <<>>
    ELSE SelectSeq(closed_bins, LAMBDA b : b.index = g) \o ByGenerationFrom(g + 1)

\* C7 amended: the records follow the generations, and within one the closing order.
C7_OrderByGenerationThenClosing ==
    pc \in {"evaluate", "done"} =>
        [r \in 1..Len(combined_jobs) |->
            <<combined_jobs[r].start_time, combined_jobs[r].machine>>]
        = Slots(ByGenerationFrom(0))

\* Two bins of one generation closed against machine order, and a later generation.
C7_Witness ==
    /\ pc = "done"
    /\ \E a, b \in 1..Len(closed_bins) :
          /\ a < b
          /\ closed_bins[a].index = closed_bins[b].index
          /\ closed_bins[a].qpu > closed_bins[b].qpu
    /\ \E a, b \in 1..Len(closed_bins) :
          a < b /\ closed_bins[a].index > closed_bins[b].index

(***************************************************************************)
(* C8 as stated: of two placed jobs, the earlier one never sits in a       *)
(* later generation than the later one.                                    *)
(***************************************************************************)
C8_GenerationsMonotone ==
    pc = "loop" =>
        \A a, b \in 1..i : (a < b /\ Placed(a) /\ Placed(b)) => GenOf(a) <= GenOf(b)

(***************************************************************************)
(* C8 amended: a job that no open bin can hold, and that therefore opens   *)
(* a generation, is placed in a generation strictly later than that of     *)
(* every job placed before it.  (A job that fits an open bin may go to an  *)
(* earlier generation than a job before it.)                               *)
(***************************************************************************)
OpenerIsLatestStep ==
    (/\ pc = "loop"
     /\ i' = i + 1
     /\ new_jobs[i + 1].instance # None
     /\ \A k \in 1..Len(open_bins) : ~Fits(open_bins[k], new_jobs[i + 1]))
    => /\ PlacedIn(open_bins' \o closed_bins', i + 1)
       /\ \A a \in 1..i :
             Placed(a) => GenOf(a) < GenIn(open_bins' \o closed_bins', i + 1)

\* C8 amended: the job that opens a generation sits later than every job placed before it.
C8_OpenerIsLatest == [][OpenerIsLatestStep]_vars

\* A later job sits in an earlier generation than a job before it.
C8_Witness ==
    /\ pc = "loop"
    /\ \E a, b \in 1..i : a < b /\ Placed(a) /\ Placed(b) /\ GenOf(a) > GenOf(b)

(***************************************************************************)
(* C9 as stated: when all jobs have a positive requirement that fits some  *)
(* machine, the generations in use number at most                          *)
(* ceil(total demand / total machine capacity), and the bins created       *)
(* number at most generations opened x machines.                           *)
(***************************************************************************)
RECURSIVE SumCapacity(_)
SumCapacity(accs) == IF accs = <<>> THEN 0 ELSE accs[1].qubits + SumCapacity(Tail(accs))

RECURSIVE SumDemand(_)
SumDemand(js) ==
    IF js = <<>> THEN 0
    ELSE (IF js[1] = None THEN 0 ELSE js[1].num_qubits) + SumDemand(Tail(js))

CeilDiv(a, b) == (a + b - 1) \div b

PositiveFeasibleInput ==
    \A k \in 1..Len(jobs) : jobs[k] # None /\ jobs[k].num_qubits > 0 /\ ~Infeasible(k)

\* Generations that hold at least one job.
UsedGenerations == {AllBins[n].index : n \in {m \in 1..Len(AllBins) : AllBins[m].jobs # <<>>}}

\* C9 as stated: the generations in use stay within ceil(demand / capacity).
C9_GenerationsWithinDemand ==
    (pc = "loop" /\ PositiveFeasibleInput) =>
        /\ Cardinality(UsedGenerations) <= CeilDiv(SumDemand(jobs), SumCapacity(accelerators))
        /\ Len(AllBins) <= index * Len(accelerators)

(***************************************************************************)
(* C9 amended: during packing the bins created number exactly              *)
(* generations opened x machines, and the generations opened number at     *)
(* most max(1, jobs placed): generation 0 is opened at the start and       *)
(* every later one by a job of its own.                                    *)
(***************************************************************************)
PlacedCount == Cardinality({k \in 1..i : jobs[k] # None})

\* C9 amended: bins = generations x machines, generations <= max(1, jobs placed).
C9_GenerationsWithinJobs ==
    pc = "loop" =>
        /\ Len(AllBins) = index * Len(accelerators)
        /\ index >= 1
        /\ index <= (IF PlacedCount > 1 THEN PlacedCount ELSE 1)

\* Two machines, demand within one generation's capacity, yet two generations opened.
C9_Witness ==
    /\ pc = "loop"
    /\ i = Len(jobs)
    /\ PositiveFeasibleInput
    /\ Len(accelerators) = 2
    /\ SumDemand(jobs) <= SumCapacity(accelerators)
    /\ index = 2

(***************************************************************************)
(* C12: every bin of the packer's output holds at least one job, the       *)
(* records number as many as the jobs of the output bins, and an empty     *)
(* job list gives no output bin and no record.                             *)
(***************************************************************************)
RECURSIVE CountJobs(_)
CountJobs(bins) == IF bins = <<>> THEN 0 ELSE Len(bins[1].jobs) + CountJobs(Tail(bins))

NoEmptyOutputBin ==
    /\ Packed => \A n \in 1..Len(closed_bins) : closed_bins[n].jobs # <<>>
    /\ (Packed /\ jobs = <<>>) => closed_bins = <<>>
    /\ pc \in {"evaluate", "done"} =>
          /\ Len(combined_jobs) = CountJobs(closed_bins)
          /\ jobs = <<>> => combined_jobs = <<>>

\* C12: at every point, no output bin is empty and no job list means no output.
C12_NoEmptyOutputBin == []NoEmptyOutputBin

\* A returned run whose sweep met an empty open bin next to bins with jobs.
C12_Witness ==
    /\ pc = "done"
    /\ closed_bins # <<>>
    /\ \E n \in 1..Len(open_bins) : open_bins[n].jobs = <<>>

(***************************************************************************)
(* C13: the step that brings a bin's remaining capacity to zero marks it   *)
(* full and moves it from the open set to the closed set; the closed set   *)
(* only grows at its end, its bins never change, a full bin is never in    *)
(* the open set, and no open bin has remaining capacity zero.              *)
(***************************************************************************)
SameSlot(a, b) == a.index = b.index /\ a.qpu = b.qpu

ClosedStaysClosed ==
    /\ pc # "entry" =>
          \A n \in 1..Len(open_bins) : open_bins[n].capacity # 0 /\ ~open_bins[n].full
    /\ pc = "loop" =>
          \A n \in 1..Len(closed_bins) :
              /\ closed_bins[n].full
              /\ closed_bins[n].capacity = 0
              /\ \A m \in 1..Len(open_bins) : ~SameSlot(open_bins[m], closed_bins[n])

CloseStep ==
    /\ pc # "entry" =>
          /\ Len(closed_bins') >= Len(closed_bins)
          /\ \A n \in 1..Len(closed_bins) : closed_bins'[n] = closed_bins[n]
    /\ (pc = "loop" /\ i' = i + 1 /\ new_jobs[i + 1].instance # None) =>
          LET job == new_jobs[i + 1]
              after == open_bins' \o closed_bins'
              n == CHOOSE n \in 1..Len(after) :
                       after[n].jobs # <<>> /\ after[n].jobs[Len(after[n].jobs)] = job
          IN  IF after[n].capacity = 0
              THEN /\ closed_bins' = Append(closed_bins, after[n])
                   /\ after[n].full
                   /\ \A m \in 1..Len(open_bins') : ~SameSlot(open_bins'[m], after[n])
              ELSE /\ closed_bins' = closed_bins
                   /\ \E m \in 1..Len(open_bins') : open_bins'[m] = after[n]

\* C13: a bin closes in the step that fills it, and a closed bin stays closed.
C13_ClosingImmediateAndFinal == []ClosedStaysClosed /\ [][CloseStep]_vars

\* A job as wide as its machine closed a bin at once, and packing went on after it.
C13_Witness ==
    /\ pc = "loop"
    /\ i >= 2
    /\ \E n \in 1..Len(closed_bins) :
          /\ Len(closed_bins[n].jobs) = 1
          /\ closed_bins[n].jobs[1].name = Str(1)
    /\ Len(closed_bins) >= 2

(***************************************************************************)
(* C14: a job that no open bin can hold opens a generation: one fresh bin  *)
(* per machine, in machine order, with the machine's nominal capacity and  *)
(* the generation index previous maximum + 1, appended to the end of the   *)
(* open set; the job goes to the first fresh bin whose capacity is >= its  *)
(* requirement, and no bin of an older generation changes.                 *)
(***************************************************************************)
\* The fresh bin of machine position m (1-based) for generation g.
FreshBin(g, m) ==
    [index |-> g, capacity |-> accelerators[m].qubits, qpu |-> m - 1,
     jobs |-> <<>>, full |-> FALSE]

MaxGeneration(bins) ==
    CHOOSE g \in {bins[n].index : n \in 1..Len(bins)} :
        \A n \in 1..Len(bins) : bins[n].index <= g

OpenGenerationStep ==
    (/\ pc = "loop"
     /\ i' = i + 1
     /\ new_jobs[i + 1].instance # None
     /\ \A k \in 1..Len(open_bins) : ~Fits(open_bins[k], new_jobs[i + 1]))
    => LET job == new_jobs[i + 1]
           g == MaxGeneration(AllBins) + 1
           M == Len(accelerators)
           first == CHOOSE m \in 1..M :
                        /\ accelerators[m].qubits >= job.instance.num_qubits
                        /\ \A j \in 1..(m - 1) :
                              accelerators[j].qubits < job.instance.num_qubits
           taken == [FreshBin(g, first) EXCEPT
                        !.jobs = <<job>>,
                        !.capacity = @ - job.instance.num_qubits]
           others(m) == FreshBin(g, m)
       IN  /\ index' = g + 1
           /\ IF taken.capacity = 0
              THEN /\ closed_bins' = Append(closed_bins, [taken EXCEPT !.full = TRUE])
                   /\ open_bins' = open_bins
                          \o [m \in 1..(M - 1) |-> others(IF m < first THEN m ELSE m + 1)]
              ELSE /\ closed_bins' = closed_bins
                   /\ open_bins' = open_bins
                          \o [m \in 1..M |-> IF m = first THEN taken ELSE others(m)]

\* C14: a job that fits no open bin opens one generation of fresh bins and takes the first that fits.
C14_OpeningAGeneration == [][OpenGenerationStep]_vars

\* A second generation was opened on two machines and the job went to its second bin.
C14_Witness ==
    /\ pc = "loop"
    /\ index >= 2
    /\ Len(accelerators) = 2
    /\ \E n \in 1..Len(AllBins) :
          AllBins[n].index >= 1 /\ AllBins[n].qpu = 1 /\ AllBins[n].jobs # <<>>
    /\ \E n \in 1..Len(open_bins) :
          open_bins[n].index >= 1 /\ open_bins[n].qpu = 0 /\ open_bins[n].jobs = <<>>

(***************************************************************************)
(* C16: no machine is booked twice in a generation.  During packing no     *)
(* two bins share (generation index, machine position), nor do two bins    *)
(* of the output, so a generation has at most one bin per machine and at   *)
(* most |machines| bins.                                                   *)
(***************************************************************************)
DistinctSlots(bins) ==
    Cardinality({<<bins[n].index, bins[n].qpu>> : n \in 1..Len(bins)}) = Len(bins)

BinsOfGeneration(bins, g) == Cardinality({n \in 1..Len(bins) : bins[n].index = g})

OneBinPerMachine(bins) ==
    /\ DistinctSlots(bins)
    /\ \A g \in 0..index : BinsOfGeneration(bins, g) <= Len(accelerators)

NoDoubleBooking ==
    /\ pc = "loop" => OneBinPerMachine(AllBins)
    /\ Packed => OneBinPerMachine(closed_bins)

\* C16: at every point, no machine is booked twice in a generation.
C16_NoDoubleBooking == []NoDoubleBooking

\* Two machines, both booked in generation 0 and in generation 1 of the output.
C16_Witness ==
    /\ pc = "done"
    /\ BinsOfGeneration(closed_bins, 0) = 2
    /\ BinsOfGeneration(closed_bins, 1) >= 1
    /\ index >= 2

(***************************************************************************)
(* C17: when the run returns after placing a job, the generation indices   *)
(* of the output bins are exactly 0..g for the highest generation g that   *)
(* was opened: no generation is empty, none is skipped.                    *)
(***************************************************************************)
GenerationsContiguous ==
    (pc = "done" /\ \E k \in 1..Len(jobs) : jobs[k] # None) =>
        {closed_bins[n].index : n \in 1..Len(closed_bins)} = 0..MaxGeneration(AllBins)

\* C17: at every point, a returned run's generations are exactly 0..g.
C17_GenerationsContiguous == []GenerationsContiguous

\* Three generations in the output.
C17_Witness ==
    /\ pc = "done"
    /\ {closed_bins[n].index : n \in 1..Len(closed_bins)} = {0, 1, 2}

(***************************************************************************)
(* C18: an entry whose circuit instance is None is skipped: the step       *)
(* leaves the open set, the closed set (hence every remaining capacity)    *)
(* and the next generation index unchanged, no record names it, and every  *)
(* entry keeps its 1-based input position as id.                           *)
(***************************************************************************)
\* The id of the entry at 1-based position k, for k <= 9.
PositionId(k) == <<DigitChar[k + 1]>>

IdsArePositions ==
    pc # "entry" =>
        /\ Len(new_jobs) = Len(jobs)
        /\ \A k \in 1..Len(jobs) :
              /\ new_jobs[k].name = PositionId(k)
              /\ new_jobs[k].instance = jobs[k]
              /\ (jobs[k] = None) =>
                    /\ CountName(AllBins, PositionId(k)) = 0
                    /\ CountRecords(combined_jobs, PositionId(k)) = 0
              /\ (jobs[k] # None /\ pc = "done") =>
                    CountRecords(result, PositionId(k)) = 1

SkipStep ==
    (pc = "loop" /\ i < Len(jobs) /\ jobs[i + 1] = None) =>
        /\ i' = i + 1
        /\ pc' = "loop"
        /\ open_bins' = open_bins
        /\ closed_bins' = closed_bins
        /\ index' = index
        /\ combined_jobs' = combined_jobs

\* C18: ids are input positions, and a None entry is stepped over without effect.
C18_NoneIsSkipped == []IdsArePositions /\ [][SkipStep]_vars

\* A returned run in which a job with a circuit follows a skipped entry.
C18_Witness ==
    /\ pc = "done"
    /\ \E k \in 2..Len(jobs) :
          /\ jobs[k - 1] = None
          /\ jobs[k] # None
          /\ CountRecords(result, PositionId(k)) = 1

(***************************************************************************)
(* C11 as stated: missing cost data is never fatal.  The run does not      *)
(* fail on a time matrix that lacks an entry, every key without entry      *)
(* counts as 0 in the finish times, and the records keep their place,      *)
(* machine and start time.                                                 *)
(***************************************************************************)
\* The supplied entries, 0 where the matrix has none (positions are 1-based;
\* in setup_times position 1 is the synthetic job "0").
ProcessEntry(j, m) ==
    IF j <= Len(process_times) /\ m <= Len(process_times[j])
    THEN process_times[j][m] ELSE 0

SetupEntry(a, b, m) ==
    IF /\ a <= Len(setup_times)
       /\ b <= Len(setup_times[a])
       /\ m <= Len(setup_times[a][b])
    THEN setup_times[a][b][m] ELSE 0

\* Input position of the job a record names, 0 for the synthetic job.
JobPos(name) == CHOOSE j \in 0..Len(jobs) : <<DigitChar[j + 1]>> = name

\* The finish time the recurrence gives record k of records.
ExpectedFinish(records, k) ==
    LET r == records[k]
        earlier == {q \in 1..(k - 1) : records[q].machine = r.machine}
        pred == IF earlier = {} THEN 0 ELSE Max(earlier)
        predPos == IF pred = 0 THEN 0 ELSE JobPos(records[pred].name)
        predFinish == IF pred = 0 THEN 0 ELSE records[pred].completion_time
    IN  predFinish + SetupEntry(predPos + 1, JobPos(r.name) + 1, MachinePos(r))
                   + ProcessEntry(JobPos(r.name), MachinePos(r))

MissingEntriesCountZero ==
    pc = "done" =>
        /\ \A k \in 1..Len(result) : result[k].completion_time = ExpectedFinish(result, k)
        /\ [k \in 1..Len(result) |-> <<result[k].start_time, result[k].machine>>]
           = Slots(ByGenerationFrom(0))

\* C11 as stated: no run fails on a missing entry, and missing entries count as 0.
C11_MissingCostIsNotFatal ==
    /\ pc # "failed"
    /\ MissingEntriesCountZero

(***************************************************************************)
(* C15: the records handed to the evaluator are, bin by bin in visiting    *)
(* order and job by job in assignment order, one record per job with the   *)
(* job's id (never "0"), the machine key at the bin's machine position,    *)
(* the bin's generation index as start time and completion time -1; the    *)
(* evaluator returns the same records in the same order with the same      *)
(* name, machine and start time.                                           *)
(***************************************************************************)
RECURSIVE ExpectedRecords(_)
ExpectedRecords(bins) ==
    IF bins = <<>> THEN <<>>
    ELSE [k \in 1..Len(bins[1].jobs) |->
             [name |-> bins[1].jobs[k].name,
              machine |-> accelerators[bins[1].qpu + 1].key,
              start_time |-> bins[1].index,
              completion_time |-> -1]]
         \o ExpectedRecords(Tail(bins))

Unscored(records) == [k \in 1..Len(records) |-> [records[k] EXCEPT !.completion_time = -1]]

RecordsCopiedThrough ==
    /\ pc = "evaluate" =>
          /\ combined_jobs = ExpectedRecords(ByGenerationFrom(0))
          /\ \A k \in 1..Len(combined_jobs) :
                \E j \in 1..Len(jobs) :
                    jobs[j] # None /\ combined_jobs[k].name = <<DigitChar[j + 1]>>
    /\ pc = "done" =>
          /\ Unscored(result) = ExpectedRecords(ByGenerationFrom(0))
          /\ \A k \in 1..Len(result) : result[k].completion_time >= 0

\* C15: at every point, the records are the bins' jobs copied through, in order.
C15_RecordsCopiedThrough == []RecordsCopiedThrough

\* A returned run: two machines in use, two generations, a bin with two jobs.
C15_Witness ==
    /\ pc = "done"
    /\ Len(result) = 3
    /\ \E k \in 1..Len(result) : result[k].start_time = 1
    /\ \E k \in 1..Len(result) : MachinePos(result[k]) = 2
    /\ \E n \in 1..Len(closed_bins) : Len(closed_bins[n].jobs) = 2

====
